---- MODULE Spec2Model ----
(***************************************************************************)
(* Model of the microgrid simulator (src/src/envs/microgrid_env.py), the   *)
(* safety supervisor (src/src/safety/supervisor.py), the rule-based        *)
(* controller (src/src/controllers/rule_based.py), the episode runner /    *)
(* evaluation aggregator (src/src/evaluation/runner.py), the comparison    *)
(* report (src/src/evaluation/comparison.py), the Modbus dispatcher        *)
(* (src/src/integration/modbus_interface.py) and the chronological split   *)
(* (src/src/data/splitting.py).                                            *)
(*                                                                         *)
(* Numbers.  The program computes in floating point; the model computes    *)
(* the same formulas exactly, on fixed-point integers:                     *)
(*   state of charge   in units of 1/SocDen          (a fraction of 1)     *)
(*   power             in units of 1/PDen kW                               *)
(*   energy per step   in units of 1/(PDen*DtDen) kWh (power * dt)         *)
(*   temperature       in units of 1/TempDen degrees C                     *)
(*   price             in units of 1/1000 per kWh                          *)
(*   cost and reward   in units of 1/(1000*PDen*DtDen): energy * price,    *)
(*                     kept as a pair (thousands, rest) of such units      *)
(* The units are chosen so that, for commands that are multiples of 5 kW,  *)
(* every division the code performs is exact.  Rounding of the float32 and *)
(* float64 formats and NaN / infinite inputs are outside the model.        *)
(* The comparison report has its own value pairs, the dispatcher takes     *)
(* setpoints in tenths of a kW and the split takes ratios in percent; each *)
(* is explained where it is defined.                                       *)
(***************************************************************************)
EXTENDS Integers, Sequences, FiniteSets, TLC

\* ------------------------------------------------------------------ bounds
Horizon == 3
MaxOverrun == 1
MaxEpisodes == 2
MaxSeed == 1
MaxCalls == 4
MaxRows == 20

\* ------------------------------------------------- configuration constants
CapacityKwh == 150
DtDen == 4
EffNum == 19
EffDen == 20
ThermalLimitC == 48
TempMinC == 15
TempMaxC == 60
LowPriceThreshold == 110
HighPriceThreshold == 160
ReserveSocPct == 20
TargetSocPct == 70
HighSocDischargeBiasPct == 75
LowPriceChargeFractionPct == 50
DegradationCostPerKwh == 20
UnmetLoadPenaltyPerKwh == 15000
ExportCurtailPenaltyPerKwh == 100

\* --------------------------------------------------------------- the units
SocDen == 304 * CapacityKwh
PDen == 76 * EffNum * EffDen
TempDen == 100 * PDen

Kw(x) == x * PDen
Pct(x) == (x * SocDen) \div 100
DegC(x) == x * TempDen

\* power units per soc unit: discharge_limit_soc and charge_limit_soc
KDis == (CapacityKwh * EffNum * DtDen * PDen) \div (SocDen * EffDen)
KChg == (CapacityKwh * EffDen * DtDen * PDen) \div (SocDen * EffNum)

Min(a, b) == IF a <= b THEN a ELSE b
Max(a, b) == IF a >= b THEN a ELSE b
Abs(a) == IF a >= 0 THEN a ELSE -a
Clip(x, lo, hi) == Min(Max(x, lo), hi)

\* ---------------------------------------------------------- configurations
\* The field kw of a configuration is the number of model units in one kW:
\* the resolution at which its powers, and the commands given under it, are
\* written.
DefaultConfig ==
  [ soc_init |-> Pct(50), soc_min |-> Pct(10), soc_max |-> Pct(90),
    max_charge_kw |-> Kw(75), max_discharge_kw |-> Kw(75),
    temperature_c |-> DegC(30),
    max_import_kw |-> Kw(250), max_export_kw |-> Kw(150), kw |-> PDen ]

\* a narrow battery, started above soc_max and at the thermal limit
NarrowConfig ==
  [ soc_init |-> Pct(95), soc_min |-> Pct(40), soc_max |-> Pct(60),
    max_charge_kw |-> Kw(75), max_discharge_kw |-> Kw(50),
    temperature_c |-> DegC(48),
    max_import_kw |-> Kw(250), max_export_kw |-> Kw(150), kw |-> PDen ]

\* a battery started below soc_min
LowConfig ==
  [ soc_init |-> Pct(5), soc_min |-> Pct(10), soc_max |-> Pct(30),
    max_charge_kw |-> Kw(50), max_discharge_kw |-> Kw(75),
    temperature_c |-> DegC(30),
    max_import_kw |-> Kw(100), max_export_kw |-> Kw(50), kw |-> PDen ]

Configs == {DefaultConfig, NarrowConfig, LowConfig}

\* the default configuration written fifty times finer (one unit is about
\* 6.9e-7 kW), for commands that differ from a limit or from zero by less
\* than the tolerances of the supervisor's comparison
FineDen == 50 * PDen
FineConfig ==
  [ soc_init |-> Pct(50), soc_min |-> Pct(10), soc_max |-> Pct(90),
    max_charge_kw |-> 75 * FineDen, max_discharge_kw |-> 75 * FineDen,
    temperature_c |-> DegC(30),
    max_import_kw |-> 250 * FineDen, max_export_kw |-> 150 * FineDen,
    kw |-> FineDen ]

Seeds == 0 .. (MaxSeed + 1)

\* ------------------------------------------------------------ the profiles
\* build_synthetic_profiles is a deterministic function of the seed; the
\* model fixes one table per seed that has a surplus step, a deficit step at
\* a high price and a balanced step at a low price.
RenewableTable == << Kw(120), Kw(60), Kw(100) >>
LoadTable == << Kw(100), Kw(100), Kw(100) >>
PriceTable == << 90, 180, 100 >>

Profiles(seed) ==
  [ renewable_kw |-> [ i \in 0 .. (Horizon - 1) |-> RenewableTable[((seed + i) % 3) + 1] ],
    load_kw |-> [ i \in 0 .. (Horizon - 1) |-> LoadTable[((seed + i) % 3) + 1] ],
    price_import_per_kwh |-> [ i \in 0 .. (Horizon - 1) |-> PriceTable[((seed + i) % 3) + 1] ],
    price_export_per_kwh |-> [ i \in 0 .. (Horizon - 1) |-> (3 * PriceTable[((seed + i) % 3) + 1]) \div 4 ] ]

\* self._profiles is None until the first reset; a loaded profile set is
\* identified by the seed it was built from
NoProfiles == -1

VARIABLES cfg, profiles, t, soc, temperature_c, ret

envVars == << cfg, profiles, t, soc, temperature_c, ret >>

\* the arguments and the result of one SafetySupervisor.apply call
VARIABLES sup_action, sup_observation, sup_decision

supVars == << sup_action, sup_observation, sup_decision >>

\* evaluate_policy and run_episode: the position in the code (pc), the
\* arguments of the call, the for-loop index, the observation held by the
\* loop, the accumulators of the running episode, the details list, the
\* returned summary and the raised error.  log, decisions, invocation and
\* prev are history variables: the calls made on the simulator and the
\* policy during the current evaluate_policy call, the supervisor decisions
\* of the running episode, and the details returned by an earlier
\* invocation with the same arguments.
VARIABLES pc, call, episode, obs, acc, details, summary, error,
          log, decisions, invocation, prev

runVars == << pc, call, episode, obs, acc, details, summary, error,
              log, decisions, invocation, prev >>

\* the argument and the result of one RuleBasedController.act call
VARIABLES ctl_observation, ctl_action

ctlVars == << ctl_observation, ctl_action >>

\* the arguments and the result of one compare_policy_summaries call
VARIABLES cmp_baseline, cmp_candidate, cmp_report

cmpVars == << cmp_baseline, cmp_candidate, cmp_report >>

\* ModbusDispatcher: whether the import of pymodbus succeeded, the client
\* attribute, the write_register calls made on clients so far, the outcome
\* of the last call on the dispatcher and the number of calls made.
\* connected is a history variable: a connect has returned and no close has
\* been called since.
VARIABLES installed, client, writes, mb_ret, mb_calls, connected

mbVars == << installed, client, writes, mb_ret, mb_calls, connected >>

\* split_profile_frame: the frame and the three ratios (in percent) it is
\* called with, the position in the code, the counts list and the outcome
VARIABLES frame, ratios, spl_pc, counts, spl_result

splVars == << frame, ratios, spl_pc, counts, spl_result >>

auxVars == << ctlVars, cmpVars, mbVars, splVars >>

\* ----------------------------------------------------------- MicrogridEnv
ValueAt(series, index) == series[Clip(index, 0, Horizon - 1)]

\* the observation for a simulator state: an 8-tuple, so the code's 0-based
\* obs[k] is obs[k + 1] here
GetObs(p, tt, s, tc) ==
  << ValueAt(p.renewable_kw, tt), ValueAt(p.renewable_kw, tt + 1),
     ValueAt(p.load_kw, tt), ValueAt(p.load_kw, tt + 1),
     s, tc,
     ValueAt(p.price_import_per_kwh, tt), ValueAt(p.price_import_per_kwh, tt + 1) >>

\* discharge_limit_soc: the power that empties the battery to soc_min in
\* one step.  The mutant forgets soc_min.
DischargeLimitSocToZero(c, s) == Max(s, 0) * KDis
DischargeLimitSoc(c, s) ==
  LET energy_available == Max(s - c.soc_min, 0)
  IN energy_available * KDis

\* charge_limit_soc: the power that fills the battery to soc_max in one step
ChargeLimitSoc(c, s) ==
  LET room_available == Max(c.soc_max - s, 0)
  IN room_available * KChg

\* _apply_battery_constraints: the realized power, the new soc and the
\* clipped energy for a command cmd_kw at state of charge s
ApplyBatteryConstraints(c, s, cmd_kw) ==
  LET discharge_limit_soc == DischargeLimitSoc(c, s)
      charge_limit_soc == ChargeLimitSoc(c, s)
      actual_kw == IF cmd_kw >= 0
                   THEN Min(Min(cmd_kw, c.max_discharge_kw), discharge_limit_soc)
                   ELSE -Min(Min(Abs(cmd_kw), c.max_charge_kw), charge_limit_soc)
      delta_soc == IF cmd_kw >= 0
                   THEN -(actual_kw \div KDis)
                   ELSE (-actual_kw) \div KChg
  IN [ actual_kw |-> actual_kw,
       soc |-> Clip(s + delta_soc, c.soc_min, c.soc_max),
       clipped_energy_kwh |-> Abs(cmd_kw - actual_kw) ]

NoRet == [ op |-> "init", err |-> "none" ]

\* reset: the soc after reset(seed, options); options either carries a
\* soc_init override or does not
NoOptions == [ has_soc_init |-> FALSE, soc_init |-> 0 ]
\* the mutant stores the start value unclipped
ResetSocUnclipped(c, options) ==
  IF options.has_soc_init THEN options.soc_init ELSE c.soc_init
ResetSoc(c, options) ==
  LET start_soc == IF options.has_soc_init THEN options.soc_init ELSE c.soc_init
  IN Clip(start_soc, c.soc_min, c.soc_max)

\* the temperature after reset: the configured one, whatever the simulator
\* held.  The mutant keeps the temperature of the previous episode.
ResetTemperatureKept(c, tc) == tc
ResetTemperature(c, tc) == c.temperature_c

\* terminated, from the timestep after the increment.  The mutant stops one
\* step late.
TerminatedLate(new_t) == new_t > Horizon
Terminated(new_t) == new_t >= Horizon

\* the size test of step on the flattened action.  The mutant lets a longer
\* vector through, its tail ignored.
ActionMalformedShortOnly(action) == Len(action) < 2
ActionMalformed(action) == Len(action) # 2

\* net_balance_kw: positive is oversupply, negative is deficit.  The
\* mutant forgets the load.
NetBalanceKwNoLoad(renewable_kw, battery_kw, grid_cmd_kw, load_kw) ==
  renewable_kw + battery_kw + grid_cmd_kw
NetBalanceKw(renewable_kw, battery_kw, grid_cmd_kw, load_kw) ==
  renewable_kw + battery_kw + grid_cmd_kw - load_kw

\* A cost is the product of an energy per step and a rate in 1/1000 per
\* kWh.  Such products exceed 32-bit integers, so a cost is the
\* pair [k, u] standing for k * 1000 + u with 0 <= u < 1000; every amount has
\* one such pair, and the arithmetic below is exact.  Carry, Combine and
\* Product are functions, so that an argument is evaluated once wherever
\* they are applied.
Carry == [ x \in Int \X Int |-> [ k |-> x[1] + (x[2] \div 1000), u |-> x[2] % 1000 ] ]
\* a + sign * b
Combine ==
  [ x \in [k : Int, u : Int] \X {-1, 1} \X [k : Int, u : Int] |->
      Carry[<< x[1].k + x[2] * x[3].k, x[1].u + x[2] * x[3].u >>] ]
\* energy * rate, for a non-negative energy and rate
Product ==
  [ x \in Nat \X Nat |-> Carry[<< (x[1] \div 1000) * x[2], (x[1] % 1000) * x[2] >>] ]
CostPlus(a, b) == Combine[<< a, 1, b >>]
CostMinus(a, b) == Combine[<< a, -1, b >>]
CostTimes(energy, rate) == Product[<< energy, rate >>]

\* penalty_cost; the clipped energy is charged a quarter of the unmet-load
\* penalty.  The mutant forgets the clipped energy.
PenaltyCostNoClipped(unmet_load_kwh, curtailed_kwh, clipped_energy_kwh) ==
  CostPlus(CostTimes(unmet_load_kwh, UnmetLoadPenaltyPerKwh),
           CostTimes(curtailed_kwh, ExportCurtailPenaltyPerKwh))
PenaltyCost(unmet_load_kwh, curtailed_kwh, clipped_energy_kwh) ==
  CostPlus(CostPlus(CostTimes(unmet_load_kwh, UnmetLoadPenaltyPerKwh),
                    CostTimes(curtailed_kwh, ExportCurtailPenaltyPerKwh)),
           CostTimes(clipped_energy_kwh, UnmetLoadPenaltyPerKwh \div 4))

\* the thermal proxy: 0.01 degrees per kW of realized power, 0.02 degrees of
\* passive cooling, clipped to [15, 60].  The mutant leaves out the clip.
NextTemperatureUnclipped(tc, battery_kw) == tc + Abs(battery_kw) - 2 * PDen
NextTemperature(tc, battery_kw) ==
  Clip(tc + Abs(battery_kw) - 2 * PDen, DegC(TempMinC), DegC(TempMaxC))

\* step: the outcome of step(action) in a simulator state
StepResult(c, pseed, tt, s, tc, action) ==
  IF pseed = NoProfiles
  THEN [ err |-> "AssertionError" ]
  ELSE IF ActionMalformed(action)
  THEN [ err |-> "ValueError" ]
  ELSE
    LET p == Profiles(pseed)
        idx == tt
        renewable_kw == ValueAt(p.renewable_kw, idx)
        load_kw == ValueAt(p.load_kw, idx)
        price_import == ValueAt(p.price_import_per_kwh, idx)
        price_export == ValueAt(p.price_export_per_kwh, idx)
        battery_cmd_kw == action[1]
        grid_cmd_kw == Clip(action[2], -c.max_export_kw, c.max_import_kw)
        b == ApplyBatteryConstraints(c, s, battery_cmd_kw)
        battery_kw == b.actual_kw
        net_balance_kw == NetBalanceKw(renewable_kw, battery_kw, grid_cmd_kw, load_kw)
        unmet_load_kwh == Max(0, -net_balance_kw)
        curtailed_kwh == Max(0, net_balance_kw)
        import_cost == CostTimes(Max(0, grid_cmd_kw), price_import)
        export_revenue == CostTimes(Max(0, -grid_cmd_kw), price_export)
        grid_cost == CostMinus(import_cost, export_revenue)
        degradation_cost == CostTimes(Abs(battery_kw), DegradationCostPerKwh)
        penalty_cost == PenaltyCost(unmet_load_kwh, curtailed_kwh, b.clipped_energy_kwh)
        reward == CostMinus(Carry[<< 0, 0 >>],
                            CostPlus(CostPlus(grid_cost, degradation_cost), penalty_cost))
        new_temp == NextTemperature(tc, battery_kw)
    IN [ err |-> "none",
         t |-> tt + 1,
         soc |-> b.soc,
         temperature_c |-> new_temp,
         reward |-> reward,
         terminated |-> Terminated(tt + 1),
         truncated |-> FALSE,
         obs |-> GetObs(p, tt + 1, b.soc, new_temp),
         info |-> [ timestep |-> idx,
                    renewable_kw |-> renewable_kw,
                    load_kw |-> load_kw,
                    battery_kw |-> battery_kw,
                    grid_kw |-> grid_cmd_kw,
                    soc |-> b.soc,
                    temperature_c |-> new_temp,
                    unmet_load_kwh |-> unmet_load_kwh,
                    curtailed_kwh |-> curtailed_kwh,
                    cost_grid |-> grid_cost,
                    cost_degradation |-> degradation_cost,
                    cost_penalty |-> penalty_cost ] ]

\* ------------------------------------------------------- SafetySupervisor
\* np.allclose(original, safe, atol=1e-6) with numpy's default rtol=1e-5:
\* |original - safe| <= atol + rtol * |safe| on every component.  In units
\* of 1/c.kw kW the bound is (c.kw + 10 * |safe|) / 1000000; the left side
\* is a whole number, so the bound is rounded down, and it is computed in
\* two parts to stay within 32-bit integers.
AllClose(c, original, safe) ==
  \A i \in 1 .. Len(original) :
    Abs(original[i] - safe[i])
      <= (Abs(safe[i]) \div 100000)
           + ((c.kw + 10 * (Abs(safe[i]) % 100000)) \div 1000000)

\* the three guard rails.  The mutant of the first misses the boundary
\* soc = soc_min + 0.01.
HighSocGuard(c, obs_soc, b) == obs_soc >= c.soc_max - Pct(1) /\ b < 0
LowSocGuardStrict(c, obs_soc, b) == obs_soc < c.soc_min + Pct(1) /\ b > 0
LowSocGuard(c, obs_soc, b) == obs_soc <= c.soc_min + Pct(1) /\ b > 0
\* the temperature test of the thermal guard.  The mutant compares with
\* the upper clip of the thermal proxy instead of the thermal limit.
TooHotAtClip(temp_c) == temp_c >= DegC(TempMaxC)
TooHot(temp_c) == temp_c >= DegC(ThermalLimitC)
\* The mutant of the thermal guard does not look at the battery term.
ThermalGuardAnyPower(temp_c, b) == TooHot(temp_c)
ThermalGuard(temp_c, b) == TooHot(temp_c) /\ Abs(b) > 0

\* the hard clip of the grid term.  The mutant clips imports only.
SafeGridImportOnly(c, grid_kw) == Min(grid_kw, c.max_import_kw)
SafeGrid(c, grid_kw) == Clip(grid_kw, -c.max_export_kw, c.max_import_kw)

\* SafetySupervisor.apply(action, observation) under configuration c
SafetyApply(c, action, observation) ==
  IF Len(action) \notin {1, 2}
  THEN [ err |-> "ValueError" ]
  ELSE IF Len(observation) < 6
  THEN [ err |-> "ValueError" ]
  ELSE
    LET obs_soc == observation[5]
        temp_c == observation[6]
        b0 == Clip(action[1], -c.max_charge_kw, c.max_discharge_kw)
        low == LowSocGuard(c, obs_soc, b0)
        b1 == IF low THEN 0 ELSE b0
        high == HighSocGuard(c, obs_soc, b1)
        b2 == IF high THEN 0 ELSE b1
        hot == ThermalGuard(temp_c, b2)
        b3 == IF hot THEN 0 ELSE b2
        safe == IF Len(action) = 2
                THEN << b3, SafeGrid(c, action[2]) >>
                ELSE << b3 >>
        reasons == (IF low THEN << "blocked_discharge_low_soc" >> ELSE << >>)
                   \o (IF high THEN << "blocked_charge_high_soc" >> ELSE << >>)
                   \o (IF hot THEN << "blocked_battery_high_temp" >> ELSE << >>)
    IN [ err |-> "none",
         action |-> safe,
         overridden |-> ~AllClose(c, action, safe),
         reason |-> IF reasons = << >> THEN << "none" >> ELSE reasons ]

\* ---------------------------------------------------- RuleBasedController
\* the command of the surplus branch.  The mutant absorbs half the surplus.
SurplusChargeHalf(c, net_excess) == -Min(c.max_charge_kw, net_excess \div 2)
SurplusCharge(c, net_excess) == -Min(c.max_charge_kw, net_excess)

\* RuleBasedController.act(observation) with the default policy thresholds.
\* The low-price branch evaluates g.max_import_kw, and no g is defined in
\* act: reaching it raises NameError.
RuleBasedAct(c, observation) ==
  IF Len(observation) < 8
  THEN [ err |-> "ValueError" ]
  ELSE
    LET renewable_now == observation[1]
        load_now == observation[3]
        obs_soc == observation[5]
        price_now == observation[7]
        net_excess == Max(0, renewable_now - load_now)
        net_deficit == Max(0, load_now - renewable_now)
        reserve_floor == Max(c.soc_min + Pct(1), Pct(ReserveSocPct))
    IN IF net_excess > 0 /\ obs_soc < c.soc_max - Pct(1)
       THEN [ err |-> "none", action |-> << SurplusCharge(c, net_excess) >> ]
       ELSE IF net_deficit > 0
       THEN IF obs_soc > reserve_floor /\ price_now >= HighPriceThreshold
            THEN [ err |-> "none", action |-> << Min(c.max_discharge_kw, net_deficit) >> ]
            ELSE IF obs_soc > Pct(HighSocDischargeBiasPct)
            THEN [ err |-> "none", action |-> << Min(c.max_discharge_kw, net_deficit \div 2) >> ]
            ELSE [ err |-> "none", action |-> << 0 >> ]
       ELSE IF price_now <= LowPriceThreshold
               /\ obs_soc < Min(Pct(TargetSocPct), c.soc_max - Pct(1))
       THEN [ err |-> "NameError" ]
       ELSE [ err |-> "none", action |-> << 0 >> ]

\* ------------------------------------------------- the comparison report
\* A metric value is the real number u * 0.1 + e * 2.5e-13, kept as the
\* pair (u, e) with |e| small: the first part carries ordinary magnitudes,
\* the second the magnitudes around the 1e-12 test of _compute_improvement.
\* Order, difference and absolute value of such pairs are exact.
Val(u, e) == [ u |-> u, e |-> e ]
Zero == Val(0, 0)
Lt(a, b) == a.u < b.u \/ (a.u = b.u /\ a.e < b.e)
Sub(a, b) == Val(a.u - b.u, a.e - b.e)
Scale(k, a) == Val(k * a.u, k * a.e)
AbsVal(a) == IF Lt(a, Zero) THEN Scale(-1, a) ELSE a

\* 1e-12 in units of 2.5e-13
TinyBaseline == 4

\* abs(baseline) < 1e-12.  The mutant tests for zero only.
BaselineNegligibleZeroOnly(baseline) == baseline = Zero
BaselineNegligible(baseline) == Lt(AbsVal(baseline), Val(0, TinyBaseline))

\* improved for a lower-is-better metric.  The mutant counts a tie as an
\* improvement.
ImprovedLowerOrEqual(baseline, candidate) == ~Lt(baseline, candidate)
ImprovedLower(baseline, candidate) == Lt(candidate, baseline)
ImprovedHigher(baseline, candidate) == Lt(baseline, candidate)

\* Python's None, True and False for the improved field
Tri(flag) == IF flag THEN "True" ELSE "False"

\* improvement_pct: None, or the quotient num / den with den > 0
NoPct == [ null |-> TRUE, num |-> Zero, den |-> Zero ]
PctOf(num, den) == [ null |-> FALSE, num |-> num, den |-> den ]

\* _compute_improvement(baseline, candidate, objective)
ComputeImprovement(baseline, candidate, objective) ==
  IF objective = "neutral"
  THEN [ err |-> "none", improved |-> "None", improvement_pct |-> NoPct ]
  ELSE IF objective = "higher"
  THEN [ err |-> "none",
         improved |-> Tri(ImprovedHigher(baseline, candidate)),
         improvement_pct |->
           IF BaselineNegligible(baseline) THEN NoPct
           ELSE PctOf(Scale(100, Sub(candidate, baseline)), AbsVal(baseline)) ]
  ELSE IF objective = "lower"
  THEN [ err |-> "none",
         improved |-> Tri(ImprovedLower(baseline, candidate)),
         improvement_pct |->
           IF BaselineNegligible(baseline) THEN NoPct
           ELSE PctOf(Scale(100, Sub(baseline, candidate)), AbsVal(baseline)) ]
  ELSE [ err |-> "ValueError" ]

\* the fixed list of metrics and objectives of compare_policy_summaries
specs ==
  << << "avg_reward", "higher" >>,
     << "avg_grid_cost", "lower" >>,
     << "avg_degradation_cost", "lower" >>,
     << "avg_penalty_cost", "lower" >>,
     << "avg_unmet_load_kwh", "lower" >>,
     << "avg_curtailed_kwh", "lower" >>,
     << "avg_import_kwh", "lower" >>,
     << "avg_export_kwh", "neutral" >>,
     << "avg_battery_throughput_kwh", "lower" >>,
     << "avg_safety_overrides", "lower" >> >>

\* MetricComparison for one entry of specs
MetricComparison(baseline, candidate, attr, objective) ==
  LET b == baseline[attr]
      c == candidate[attr]
      r == ComputeImprovement(b, c, objective)
  IN [ metric |-> attr,
       objective |-> objective,
       baseline |-> b,
       candidate |-> c,
       delta |-> Sub(c, b),
       improved |-> r.improved,
       improvement_pct |-> r.improvement_pct ]

\* whether the loop counts a metric as compared.  The mutant counts the
\* neutral metric too.
IsComparedAlways(improved) == TRUE
IsCompared(improved) == improved # "None"

\* the two counters after the first n entries of specs, as the loop of
\* compare_policy_summaries advances them
RECURSIVE CountAfter(_, _)
CountAfter(metrics, n) ==
  IF n = 0
  THEN [ improved_metric_count |-> 0, compared_metric_count |-> 0 ]
  ELSE LET before == CountAfter(metrics, n - 1)
           improved == metrics[n].improved
       IN IF IsCompared(improved)
          THEN [ improved_metric_count |->
                   IF improved = "True" THEN before.improved_metric_count + 1
                   ELSE before.improved_metric_count,
                 compared_metric_count |-> before.compared_metric_count + 1 ]
          ELSE before

\* compare_policy_summaries(baseline, candidate)
ComparePolicySummaries(baseline, candidate) ==
  LET metrics == [ i \in 1 .. Len(specs) |->
                     MetricComparison(baseline, candidate, specs[i][1], specs[i][2]) ]
      totals == CountAfter(metrics, Len(specs))
  IN [ baseline_policy |-> baseline.policy,
       candidate_policy |-> candidate.policy,
       episodes |-> Min(baseline.episodes, candidate.episodes),
       metrics |-> metrics,
       improved_metric_count |-> totals.improved_metric_count,
       compared_metric_count |-> totals.compared_metric_count ]

\* -------------------------------------------------------- ModbusDispatcher
\* ModbusConfig
UnitId == 1
BatterySetpointRegister == 100
GridSetpointRegister == 101

\* int(round(x)) for x given in tenths: Python rounds to the nearest
\* integer and a tie to the even one
RoundHalfEven(tenths) ==
  LET q == tenths \div 10
      r == tenths % 10
  IN IF r < 5 THEN q
     ELSE IF r > 5 THEN q + 1
     ELSE IF q % 2 = 0 THEN q ELSE q + 1

\* one write_register call
WriteRegister(address, value) ==
  [ address |-> address, value |-> value, slave |-> UnitId ]

\* the guard of dispatch.  The mutant drops it.
DispatchAllowedAlways(c) == TRUE
DispatchAllowed(c) == c # "None"

\* ----------------------------------------------------- split_profile_frame
\* pd.to_datetime(..., errors="coerce") turns an unparseable timestamp into
\* NaT
NaT == -1

\* ts.isna().any() and ts.is_monotonic_increasing (ties allowed)
AnyNaT(ts) == \E i \in 1 .. Len(ts) : ts[i] = NaT
IsMonotonicIncreasing(ts) == \A i \in 1 .. (Len(ts) - 1) : ts[i] <= ts[i + 1]

\* int(n_rows * ratio) for a ratio given in percent
RawCount(n_rows, ratio) == (n_rows * ratio) \div 100

\* the checks made before any counting: the error raised, or "none"
SplitRejection(f, r) ==
  IF \E i \in 1 .. 3 : r[i] <= 0 THEN "ratio"
  ELSE IF r[1] + r[2] + r[3] # 100 THEN "sum"
  ELSE IF f.rows < 3 THEN "rows"
  ELSE IF f.has_timestamp /\ AnyNaT(f.timestamp) THEN "timestamp_invalid"
  ELSE IF f.has_timestamp /\ ~IsMonotonicIncreasing(f.timestamp) THEN "timestamp_unsorted"
  ELSE "none"

Sum3(c) == c[1] + c[2] + c[3]

\* max(range(3), key=lambda idx: counts[idx]): the first index of the
\* largest count
LargestIndex(c) ==
  CHOOSE i \in 1 .. 3 :
    /\ \A j \in 1 .. 3 : c[j] <= c[i]
    /\ \A j \in 1 .. (i - 1) : c[j] < c[i]

\* max(1, c) on a raw count.  The mutant keeps the raw count.
AtLeastOneRaw(c) == c
AtLeastOne(c) == Max(1, c)

\* counts[0] += 1
GrowTrain(c) == [ c EXCEPT ![1] = c[1] + 1 ]

\* frame.iloc[first : last_excluded], rows numbered from 1
Rows(first, last) == [ i \in 1 .. (last - first + 1) |-> first + i - 1 ]

\* ------------------------------------------------- the evaluation runner
\* random_policy_fn: env.action_space.sample().  reset(seed) seeds the
\* simulator's own generator only; the generator of action_space is seeded
\* from the operating system on first use and keeps its stream across
\* calls, so a sample is any point of the box.  The model draws from the
\* two points below.
RandomSamples(c) ==
  { << c.max_discharge_kw, Kw(0) >>, << -c.max_charge_kw, c.max_import_kw >> }

Policies == {"random", "baseline"}

\* a policy_fn that answers every observation with the all-zero action
ZeroAction == << Kw(0), Kw(0) >>

\* policy_fn(obs) for the two built-in policies and the all-zero policy;
\* sample is what the action space returns for this call
PolicyAct(policy, c, observation, sample) ==
  IF policy = "random"
  THEN [ err |-> "none", action |-> sample ]
  ELSE IF policy = "zero"
  THEN [ err |-> "none", action |-> ZeroAction ]
  ELSE RuleBasedAct(c, observation)

\* the guard of evaluate_policy.  The mutant lets episodes = 0 through.
EpisodesInvalidNegativeOnly(episodes) == episodes < 0
EpisodesInvalid(episodes) == episodes <= 0

\* the action run_episode hands to env.step.  The mutant bypasses the
\* supervisor.
HandedActionRaw(use_safety, action, safe_decision) == action
HandedAction(use_safety, action, safe_decision) ==
  IF use_safety THEN safe_decision.action ELSE action

\* the safety_overrides counter after one decision.  The mutant counts
\* every supervised step.
CountOverrideAlways(use_safety, count, safe_decision) ==
  IF use_safety THEN count + 1 ELSE count
CountOverride(use_safety, count, safe_decision) ==
  IF use_safety /\ safe_decision.overridden THEN count + 1 ELSE count

ZeroAcc ==
  [ unmet_load_kwh |-> 0, curtailed_kwh |-> 0, import_kwh |-> 0,
    export_kwh |-> 0, battery_throughput_kwh |-> 0,
    safety_overrides |-> 0, steps |-> 0 ]

\* the accumulators after one simulator step
Accumulate(a, overrides, info) ==
  [ unmet_load_kwh |-> a.unmet_load_kwh + info.unmet_load_kwh,
    curtailed_kwh |-> a.curtailed_kwh + info.curtailed_kwh,
    import_kwh |-> a.import_kwh + Max(0, info.grid_kw),
    export_kwh |-> a.export_kwh + Max(0, -info.grid_kw),
    battery_throughput_kwh |-> a.battery_throughput_kwh + Abs(info.battery_kw),
    safety_overrides |-> overrides,
    steps |-> a.steps + 1 ]

\* EpisodeMetrics(episode=episode_index, ...)
EpisodeMetrics(episode_index, a) ==
  [ episode |-> episode_index,
    unmet_load_kwh |-> a.unmet_load_kwh,
    curtailed_kwh |-> a.curtailed_kwh,
    import_kwh |-> a.import_kwh,
    export_kwh |-> a.export_kwh,
    battery_throughput_kwh |-> a.battery_throughput_kwh,
    safety_overrides |-> a.safety_overrides,
    steps |-> a.steps ]

\* ------------------------------------------- the simulator driven directly
ResetOptions ==
  {NoOptions} \cup { [ has_soc_init |-> TRUE, soc_init |-> v ] : v \in {Pct(0), Pct(12), Pct(59), Pct(100)} }

EnvActions ==
  { << Kw(0), Kw(0) >>, << Kw(40), Kw(0) >>, << Kw(-40), Kw(0) >>,
    << Kw(100), Kw(300) >>, << Kw(-100), Kw(-200) >>,
    << Kw(0) >>, << Kw(40) >>,
    << >>, << Kw(40), Kw(0), Kw(0) >> }

SupIdle ==
  /\ sup_action = << >>
  /\ sup_observation = << >>
  /\ sup_decision = [ err |-> "pending" ]

\* MicrogridEnv(config): the simulator as constructed
EnvConstructed ==
  /\ cfg \in Configs
  /\ profiles = NoProfiles
  /\ t = 0
  /\ soc = cfg.soc_init
  /\ temperature_c = cfg.temperature_c
  /\ ret = NoRet

\* no evaluate_policy call has been made
RunIdle ==
  /\ pc = "idle"
  /\ call = [ policy |-> "none", episodes |-> 0, seed_start |-> 0, use_safety |-> FALSE ]
  /\ episode = 0
  /\ obs = << >>
  /\ acc = ZeroAcc
  /\ details = << >>
  /\ summary = << >>
  /\ error = "none"
  /\ log = << >>
  /\ decisions = << >>
  /\ invocation = 0
  /\ prev = << >>

\* no controller call has been made
CtlIdle ==
  /\ ctl_observation = << >>
  /\ ctl_action = [ err |-> "pending" ]

\* no comparison has been made
CmpIdle ==
  /\ cmp_baseline = << >>
  /\ cmp_candidate = << >>
  /\ cmp_report = << >>

\* ModbusDispatcher(config): no client yet
MbConstructed ==
  /\ client = "None"
  /\ writes = << >>
  /\ mb_ret = [ op |-> "init", err |-> "none" ]
  /\ mb_calls = 0
  /\ connected = FALSE

MbIdle == installed = FALSE /\ MbConstructed

\* no split has been asked for
SplIdle ==
  /\ frame = [ rows |-> 0, has_timestamp |-> FALSE, timestamp |-> << >> ]
  /\ ratios = << 70, 15, 15 >>
  /\ spl_pc = "idle"
  /\ counts = << >>
  /\ spl_result = [ err |-> "pending" ]

AuxIdle == CtlIdle /\ CmpIdle /\ MbIdle /\ SplIdle

EnvInit == EnvConstructed /\ SupIdle /\ RunIdle /\ AuxIdle

\* ret records the arguments of the call and the timestep it was made at
Reset(seed, options) ==
  /\ profiles' = seed
  /\ t' = 0
  /\ soc' = ResetSoc(cfg, options)
  /\ temperature_c' = ResetTemperature(cfg, temperature_c)
  /\ ret' = [ op |-> "reset", err |-> "none", seed |-> seed, options |-> options,
              t_before |-> t,
              obs |-> GetObs(Profiles(seed), 0, ResetSoc(cfg, options),
                             ResetTemperature(cfg, temperature_c)) ]
  /\ UNCHANGED cfg

Step(action) ==
  \E r \in { StepResult(cfg, profiles, t, soc, temperature_c, action) } :
     /\ t < Horizon + MaxOverrun
     /\ IF r.err # "none"
        THEN /\ ret' = [ op |-> "step", err |-> r.err, action |-> action ]
             /\ UNCHANGED << t, soc, temperature_c >>
        ELSE /\ t' = r.t
             /\ soc' = r.soc
             /\ temperature_c' = r.temperature_c
             /\ ret' = [ op |-> "step", err |-> "none", action |-> action,
                         soc_before |-> soc, t_before |-> t,
                         obs |-> r.obs, reward |-> r.reward,
                         terminated |-> r.terminated,
                         truncated |-> r.truncated, info |-> r.info ]
     /\ UNCHANGED << cfg, profiles >>

EnvNext ==
  \/ \E seed \in Seeds, options \in ResetOptions : Reset(seed, options)
  \/ \E action \in EnvActions : Step(action)

vars == << envVars, supVars, runVars, auxVars >>

SpecEnv == EnvInit /\ [][EnvNext /\ UNCHANGED << supVars, runVars, auxVars >>]_vars

\* ----------------------- the simulator configured at extreme temperatures
\* the narrow battery with a configured temperature below the lower clip,
\* just below the upper clip and above it
ThermalInit ==
  /\ cfg \in { [ NarrowConfig EXCEPT !.temperature_c = tc ] :
                 tc \in { DegC(10), DegC(TempMaxC) - 50 * PDen, DegC(70) } }
  /\ profiles = NoProfiles
  /\ t = 0
  /\ soc = cfg.soc_init
  /\ temperature_c = cfg.temperature_c
  /\ ret = NoRet
  /\ SupIdle
  /\ RunIdle
  /\ AuxIdle

SpecThermal == ThermalInit /\ [][EnvNext /\ UNCHANGED << supVars, runVars, auxVars >>]_vars

\* ------------------------------------------ the supervisor applied directly
SupBattery == { Kw(-100), Kw(-75), Kw(-5), Kw(0), Kw(5), Kw(75), Kw(100) }
SupGrid == { Kw(-200), Kw(0), Kw(300) }
SupActions ==
  { << b >> : b \in SupBattery } \cup { << b, g >> : b \in SupBattery, g \in SupGrid }
SupSocs(c) ==
  { c.soc_min, c.soc_min + Pct(1), c.soc_min + Pct(1) + 1,
    c.soc_max - Pct(1) - 1, c.soc_max - Pct(1), c.soc_max }
SupTemps == { DegC(30), DegC(ThermalLimitC) - 1, DegC(ThermalLimitC), DegC(55) }
SupObservations(c) ==
  { << Kw(100), Kw(100), Kw(100), Kw(100), s, tc, 100, 100 >> : s \in SupSocs(c), tc \in SupTemps }

SafetyInit ==
  /\ EnvConstructed
  /\ RunIdle
  /\ AuxIdle
  /\ sup_action \in SupActions
  /\ sup_observation \in SupObservations(cfg)
  /\ sup_decision = [ err |-> "pending" ]

Apply ==
  /\ sup_decision.err = "pending"
  /\ sup_decision' = SafetyApply(cfg, sup_action, sup_observation)
  /\ UNCHANGED << sup_action, sup_observation >>

SafetyNext == Apply

SpecSafety == SafetyInit /\ [][SafetyNext /\ UNCHANGED << envVars, runVars, auxVars >>]_vars

\* ------------------------- the supervisor applied at the fine resolution
\* battery terms around zero (one unit is below the absolute tolerance of
\* 1e-6 kW, two units are above it) and around the limits (500 units over
\* the limit is 3.5e-4 kW), grid terms likewise
FineBattery ==
  { -(75 * FineDen) - 500, -(5 * FineDen), -2, -1, 0, 1, 2, 5 * FineDen,
    75 * FineDen, 75 * FineDen + 500, 75 * FineDen + 2000 }
FineGrid == { 0, 250 * FineDen + 1000, 300 * FineDen }

FineInit ==
  /\ cfg = FineConfig
  /\ profiles = NoProfiles
  /\ t = 0
  /\ soc = cfg.soc_init
  /\ temperature_c = cfg.temperature_c
  /\ ret = NoRet
  /\ RunIdle
  /\ AuxIdle
  /\ sup_action \in { << b >> : b \in FineBattery }
                      \cup { << b, g >> : b \in FineBattery, g \in FineGrid }
  /\ sup_observation \in
       { << 100 * FineDen, 100 * FineDen, 100 * FineDen, 100 * FineDen, s, tc, 100, 100 >> :
           s \in SupSocs(FineConfig), tc \in SupTemps }
  /\ sup_decision = [ err |-> "pending" ]

SpecSafetyFine == FineInit /\ [][SafetyNext /\ UNCHANGED << envVars, runVars, auxVars >>]_vars

\* ------------------------------------------------ evaluate_policy at work
EpisodeCounts == -1 .. MaxEpisodes
SeedStarts == 0 .. MaxSeed

Event(ev, arg) == [ ev |-> ev, arg |-> arg ]

RECURSIVE SeqSum(_)
SeqSum(q) == IF q = << >> THEN 0 ELSE q[1] + SeqSum(Tail(q))

\* EvaluationSummary(...): an average is kept as its total, to be divided
\* by episodes
Summary(policy_name, episodes, d) ==
  [ policy |-> policy_name,
    episodes |-> episodes,
    total_unmet_load_kwh |-> SeqSum([ i \in 1 .. Len(d) |-> d[i].unmet_load_kwh ]),
    total_curtailed_kwh |-> SeqSum([ i \in 1 .. Len(d) |-> d[i].curtailed_kwh ]),
    total_import_kwh |-> SeqSum([ i \in 1 .. Len(d) |-> d[i].import_kwh ]),
    total_export_kwh |-> SeqSum([ i \in 1 .. Len(d) |-> d[i].export_kwh ]),
    total_battery_throughput_kwh |-> SeqSum([ i \in 1 .. Len(d) |-> d[i].battery_throughput_kwh ]),
    total_safety_overrides |-> SeqSum([ i \in 1 .. Len(d) |-> d[i].safety_overrides ]),
    details |-> d ]

\* evaluate_policy is entered: the guard on episodes, then the empty details
\* list
Enter(policy, episodes, seed_start, use_safety) ==
  /\ call' = [ policy |-> policy, episodes |-> episodes,
               seed_start |-> seed_start, use_safety |-> use_safety ]
  /\ IF EpisodesInvalid(episodes)
     THEN pc' = "raised" /\ error' = "ValueError"
     ELSE pc' = "for" /\ error' = "none"
  /\ episode' = 0
  /\ obs' = << >>
  /\ acc' = ZeroAcc
  /\ details' = << >>
  /\ summary' = << >>
  /\ log' = << >>
  /\ decisions' = << >>
  /\ UNCHANGED envVars

EvaluatePolicy(policy, episodes, seed_start, use_safety) ==
  /\ pc \in {"idle", "returned", "raised"}
  /\ Enter(policy, episodes, seed_start, use_safety)
  /\ invocation' = 1
  /\ prev' = << >>

\* run_episode begins: env.reset(seed=seed_start + episode) and the zeroed
\* accumulators
RunEpisodeReset ==
  /\ pc = "for"
  /\ episode < call.episodes
  /\ Reset(call.seed_start + episode, NoOptions)
  /\ obs' = ret'.obs
  /\ acc' = ZeroAcc
  /\ decisions' = << >>
  /\ log' = Append(log, Event("reset", call.seed_start + episode))
  /\ pc' = "while"
  /\ UNCHANGED << call, episode, details, summary, error, invocation, prev >>

\* an exception leaves run_episode and evaluate_policy
Raise(err, events) ==
  /\ pc' = "raised"
  /\ error' = err
  /\ log' = log \o events
  /\ UNCHANGED << call, episode, obs, acc, details, summary, invocation, prev >>

\* one iteration of the while loop of run_episode: the policy, the
\* supervisor when enabled, env.step, the accumulators; on done the metrics
\* are returned and appended to details
LoopIteration(sample) ==
  /\ pc = "while"
  /\ \E pol \in { PolicyAct(call.policy, cfg, obs, sample) } :
     \E safe_decision \in { IF pol.err = "none" /\ call.use_safety
                            THEN SafetyApply(cfg, pol.action, obs)
                            ELSE [ err |-> "none" ] } :
       IF pol.err # "none"
       THEN /\ Raise(pol.err, << Event("policy", acc.steps) >>)
            /\ UNCHANGED << envVars, decisions >>
       ELSE IF safe_decision.err # "none"
       THEN /\ Raise(safe_decision.err, << Event("policy", acc.steps) >>)
            /\ UNCHANGED << envVars, decisions >>
       ELSE
         \E action \in { HandedAction(call.use_safety, pol.action, safe_decision) } :
         \E overrides \in { CountOverride(call.use_safety, acc.safety_overrides, safe_decision) } :
         \E r \in { StepResult(cfg, profiles, t, soc, temperature_c, action) } :
         \E decision \in { [ policy_action |-> pol.action, observation |-> obs,
                             handed |-> action ] } :
           IF r.err # "none"
           THEN /\ Raise(r.err, << Event("policy", acc.steps), Event("step", acc.steps) >>)
                /\ decisions' = Append(decisions, decision)
                /\ ret' = [ op |-> "step", err |-> r.err, action |-> action ]
                /\ UNCHANGED << cfg, profiles, t, soc, temperature_c >>
           ELSE
             \E new_acc \in { Accumulate(acc, overrides, r.info) } :
                /\ t' = r.t
                /\ soc' = r.soc
                /\ temperature_c' = r.temperature_c
                /\ ret' = [ op |-> "step", err |-> "none", action |-> action,
                            soc_before |-> soc, t_before |-> t,
                            obs |-> r.obs, reward |-> r.reward,
                            terminated |-> r.terminated,
                            truncated |-> r.truncated, info |-> r.info ]
                /\ obs' = r.obs
                /\ acc' = new_acc
                /\ decisions' = Append(decisions, decision)
                /\ IF r.terminated \/ r.truncated
                   THEN /\ details' = Append(details, EpisodeMetrics(episode, new_acc))
                        /\ episode' = episode + 1
                        /\ log' = log \o << Event("policy", acc.steps), Event("step", acc.steps),
                                             Event("append", episode) >>
                        /\ pc' = "for"
                   ELSE /\ log' = log \o << Event("policy", acc.steps), Event("step", acc.steps) >>
                        /\ pc' = "while"
                        /\ UNCHANGED << details, episode >>
                /\ UNCHANGED << cfg, profiles, call, summary, error, invocation, prev >>

\* the for loop is exhausted: the summary is built and returned
Summarise ==
  /\ pc = "for"
  /\ episode >= call.episodes
  /\ summary' = << Summary(call.policy, call.episodes, details) >>
  /\ pc' = "returned"
  /\ UNCHANGED << envVars, call, episode, obs, acc, details, error, log, decisions,
                  invocation, prev >>

EvalInit == EnvConstructed /\ SupIdle /\ RunIdle /\ AuxIdle

EvalNext ==
  \/ \E policy \in Policies, episodes \in EpisodeCounts,
        seed_start \in SeedStarts, use_safety \in BOOLEAN :
        EvaluatePolicy(policy, episodes, seed_start, use_safety)
  \/ RunEpisodeReset
  \/ \E sample \in RandomSamples(cfg) : LoopIteration(sample)
  \/ Summarise

SpecEval == EvalInit /\ [][EvalNext /\ UNCHANGED << supVars, auxVars >>]_vars

\* ------------------------- evaluate_policy on a battery near the thermal limit
\* the default configuration with a configured temperature half a degree
\* and a hundredth of a degree below the thermal limit: one step at full
\* power carries the battery over it
WarmInit ==
  /\ cfg \in { [ DefaultConfig EXCEPT !.temperature_c = tc ] :
                 tc \in { DegC(ThermalLimitC) - 50 * PDen, DegC(ThermalLimitC) - PDen } }
  /\ profiles = NoProfiles
  /\ t = 0
  /\ soc = cfg.soc_init
  /\ temperature_c = cfg.temperature_c
  /\ ret = NoRet
  /\ SupIdle
  /\ RunIdle
  /\ AuxIdle

SpecWarm == WarmInit /\ [][EvalNext /\ UNCHANGED << supVars, auxVars >>]_vars

\* ------------------------------------------- one evaluate_policy call
EvaluateFirst(policy, episodes, seed_start, use_safety) ==
  /\ pc = "idle"
  /\ Enter(policy, episodes, seed_start, use_safety)
  /\ invocation' = 1
  /\ prev' = << >>

\* one call on a fresh simulator, with the default seed_start = 0
OnceNext ==
  \/ \E policy \in Policies, episodes \in EpisodeCounts, use_safety \in BOOLEAN :
        EvaluateFirst(policy, episodes, 0, use_safety)
  \/ RunEpisodeReset
  \/ \E sample \in RandomSamples(cfg) : LoopIteration(sample)
  \/ Summarise

\* the code is sequential and synchronous: a loop iteration that can run
\* does run
FairSpecEval ==
  /\ EvalInit
  /\ [][OnceNext /\ UNCHANGED << supVars, auxVars >>]_vars
  /\ WF_vars((\E sample \in RandomSamples(cfg) : LoopIteration(sample)) /\ UNCHANGED << supVars, auxVars >>)

\* ------------------------------ evaluate_policy invoked twice, identically
\* the second invocation: the same simulator, policy and arguments
EvaluateAgain ==
  /\ pc = "returned"
  /\ invocation = 1
  /\ Enter(call.policy, call.episodes, call.seed_start, call.use_safety)
  /\ invocation' = 2
  /\ prev' = << details >>

RepeatNext ==
  \/ \E policy \in Policies, episodes \in EpisodeCounts, seed_start \in SeedStarts :
        EvaluateFirst(policy, episodes, seed_start, TRUE)
  \/ EvaluateAgain
  \/ RunEpisodeReset
  \/ \E sample \in RandomSamples(cfg) : LoopIteration(sample)
  \/ Summarise

SpecRepeat == EvalInit /\ [][RepeatNext /\ UNCHANGED << supVars, auxVars >>]_vars

\* ------------------------------------------ the controller called directly
CtlRenewables == { Kw(60), Kw(100), Kw(105), Kw(120), Kw(200) }
CtlLoads == { Kw(100) }
CtlSocs(c) ==
  { c.soc_min, Pct(ReserveSocPct) + 1, Pct(50), Pct(TargetSocPct),
    Pct(HighSocDischargeBiasPct) + 1, c.soc_max - Pct(1) - 1, c.soc_max - Pct(1), c.soc_max }
CtlPrices == { 90, LowPriceThreshold, LowPriceThreshold + 1, HighPriceThreshold, 200 }
CtlObservations(c) ==
  { << r, r, l, l, s, DegC(30), p, p >> :
      r \in CtlRenewables, l \in CtlLoads, s \in CtlSocs(c), p \in CtlPrices }
  \cup { << Kw(120), Kw(120), Kw(100), Kw(100), Pct(50), DegC(30), 90, 90, 0 >>,
         << Kw(120), Kw(120), Kw(100), Kw(100), Pct(50), DegC(30), 90 >> }

CtlInit ==
  /\ EnvConstructed
  /\ SupIdle
  /\ RunIdle
  /\ CmpIdle
  /\ MbIdle
  /\ SplIdle
  /\ ctl_observation \in CtlObservations(cfg)
  /\ ctl_action = [ err |-> "pending" ]

Act ==
  /\ ctl_action.err = "pending"
  /\ ctl_action' = RuleBasedAct(cfg, ctl_observation)
  /\ UNCHANGED ctl_observation

CtlNext == Act

SpecController ==
  CtlInit /\ [][CtlNext /\ UNCHANGED << envVars, supVars, runVars, cmpVars, mbVars, splVars >>]_vars

\* ----------------------------------------------- two summaries compared
\* metric values: ordinary ones, zero, and values on both sides of 1e-12
CmpValues ==
  { Val(-1200, 0), Val(-900, 0), Val(0, 0), Val(0, 3), Val(0, -3),
    Val(0, 4), Val(50, 0), Val(50, 1) }

\* an EvaluationSummary whose metrics take the values x and y, or their
\* magnitudes
EvaluationSummary(policy, episodes, x, y) ==
  [ policy |-> policy,
    episodes |-> episodes,
    avg_reward |-> x,
    avg_grid_cost |-> y,
    avg_degradation_cost |-> AbsVal(x),
    avg_penalty_cost |-> AbsVal(y),
    avg_unmet_load_kwh |-> AbsVal(x),
    avg_curtailed_kwh |-> AbsVal(y),
    avg_import_kwh |-> AbsVal(x),
    avg_export_kwh |-> AbsVal(x),
    avg_battery_throughput_kwh |-> AbsVal(y),
    avg_safety_overrides |-> AbsVal(x) ]

\* the two summaries of test_compare_policy_summaries_directionality
TestBaseline ==
  [ policy |-> "baseline", episodes |-> 3,
    avg_reward |-> Val(-1200, 0), avg_grid_cost |-> Val(1000, 0),
    avg_degradation_cost |-> Val(50, 0), avg_penalty_cost |-> Val(150, 0),
    avg_unmet_load_kwh |-> Val(10, 0), avg_curtailed_kwh |-> Val(20, 0),
    avg_import_kwh |-> Val(800, 0), avg_export_kwh |-> Val(30, 0),
    avg_battery_throughput_kwh |-> Val(500, 0), avg_safety_overrides |-> Val(20, 0) ]
TestCandidate ==
  [ policy |-> "sac:model.zip", episodes |-> 3,
    avg_reward |-> Val(-900, 0), avg_grid_cost |-> Val(850, 0),
    avg_degradation_cost |-> Val(45, 0), avg_penalty_cost |-> Val(70, 0),
    avg_unmet_load_kwh |-> Val(2, 0), avg_curtailed_kwh |-> Val(15, 0),
    avg_import_kwh |-> Val(700, 0), avg_export_kwh |-> Val(40, 0),
    avg_battery_throughput_kwh |-> Val(450, 0), avg_safety_overrides |-> Val(10, 0) ]

CmpBaselines ==
  { EvaluationSummary("baseline", 3, x, y) : x \in CmpValues, y \in CmpValues }
  \cup { TestBaseline }
CmpCandidates ==
  { EvaluationSummary("sac:model.zip", 2, x, y) : x \in CmpValues, y \in CmpValues }
  \cup { TestCandidate }

CmpInit ==
  /\ EnvConstructed
  /\ SupIdle
  /\ RunIdle
  /\ CtlIdle
  /\ MbIdle
  /\ SplIdle
  /\ cfg = DefaultConfig
  /\ cmp_baseline \in CmpBaselines
  /\ cmp_candidate \in CmpCandidates
  /\ cmp_report = << >>

Compare ==
  /\ cmp_report = << >>
  /\ cmp_report' = << ComparePolicySummaries(cmp_baseline, cmp_candidate) >>
  /\ UNCHANGED << cmp_baseline, cmp_candidate >>

CmpNext == Compare

SpecCompare ==
  CmpInit /\ [][CmpNext /\ UNCHANGED << envVars, supVars, runVars, ctlVars, mbVars, splVars >>]_vars

\* ------------------------------------------ the dispatcher called at will
\* setpoints in tenths of a kW, ties of both parities among them
MbBatteryKw == { -755, 5, 15, 496 }
MbGridKw == { -25, 1004 }

MbInit ==
  /\ EnvConstructed
  /\ SupIdle
  /\ RunIdle
  /\ CtlIdle
  /\ CmpIdle
  /\ SplIdle
  /\ cfg = DefaultConfig
  /\ installed \in BOOLEAN
  /\ MbConstructed

\* connect(): RuntimeError without pymodbus; else a new client is stored and
\* its connect() called
Connect ==
  /\ mb_calls < MaxCalls
  /\ mb_calls' = mb_calls + 1
  /\ IF ~installed
     THEN /\ mb_ret' = [ op |-> "connect", err |-> "RuntimeError" ]
          /\ UNCHANGED << client, connected >>
     ELSE /\ mb_ret' = [ op |-> "connect", err |-> "none" ]
          /\ client' = "ModbusTcpClient"
          /\ connected' = TRUE
  /\ UNCHANGED << installed, writes >>

\* dispatch(battery_kw, grid_kw): RuntimeError without a client; else the
\* battery register is written, then the grid register
Dispatch(battery_kw, grid_kw) ==
  /\ mb_calls < MaxCalls
  /\ mb_calls' = mb_calls + 1
  /\ IF ~DispatchAllowed(client)
     THEN /\ mb_ret' = [ op |-> "dispatch", err |-> "RuntimeError",
                         battery_kw |-> battery_kw, grid_kw |-> grid_kw ]
          /\ UNCHANGED writes
     ELSE /\ mb_ret' = [ op |-> "dispatch", err |-> "none",
                         battery_kw |-> battery_kw, grid_kw |-> grid_kw ]
          /\ writes' = writes
                \o << WriteRegister(BatterySetpointRegister, RoundHalfEven(battery_kw)),
                      WriteRegister(GridSetpointRegister, RoundHalfEven(grid_kw)) >>
  /\ UNCHANGED << installed, client, connected >>

\* close(): the client, if there is one, is closed and dropped
Close ==
  /\ mb_calls < MaxCalls
  /\ mb_calls' = mb_calls + 1
  /\ mb_ret' = [ op |-> "close", err |-> "none" ]
  /\ client' = "None"
  /\ connected' = FALSE
  /\ UNCHANGED << installed, writes >>

MbNext ==
  \/ Connect
  \/ \E battery_kw \in MbBatteryKw, grid_kw \in MbGridKw : Dispatch(battery_kw, grid_kw)
  \/ Close

SpecModbus ==
  MbInit /\ [][MbNext /\ UNCHANGED << envVars, supVars, runVars, ctlVars, cmpVars, splVars >>]_vars

\* -------------------------------------------------- a frame being split
RatioValues == { -5, 0, 5, 15, 70, 90 }

\* the timestamp column of a frame of n rows: none, increasing, with ties,
\* with the first two rows swapped, or with an unparseable last value
TimestampKinds == { "absent", "increasing", "tied", "unsorted", "invalid" }
Frame(n, kind) ==
  [ rows |-> n,
    has_timestamp |-> kind # "absent",
    timestamp |->
      IF kind = "absent" THEN << >>
      ELSE [ i \in 1 .. n |->
               IF kind = "increasing" THEN i
               ELSE IF kind = "tied" THEN i \div 2
               ELSE IF kind = "unsorted" THEN (IF i = 1 THEN 2 ELSE IF i = 2 THEN 1 ELSE i)
               ELSE (IF i = n THEN NaT ELSE i) ] ]

SplInit ==
  /\ EnvConstructed
  /\ SupIdle
  /\ RunIdle
  /\ CtlIdle
  /\ CmpIdle
  /\ MbIdle
  /\ cfg = DefaultConfig
  /\ frame \in { Frame(n, kind) : n \in 0 .. MaxRows, kind \in TimestampKinds }
  /\ ratios \in RatioValues \X RatioValues \X RatioValues
  /\ spl_pc = "start"
  /\ counts = << >>
  /\ spl_result = [ err |-> "pending" ]

\* the checks, then raw_counts and counts
SplitStart ==
  /\ spl_pc = "start"
  /\ IF SplitRejection(frame, ratios) # "none"
     THEN /\ spl_pc' = "raised"
          /\ spl_result' = [ err |-> "ValueError", why |-> SplitRejection(frame, ratios) ]
          /\ UNCHANGED counts
     ELSE /\ spl_pc' = "shrink"
          /\ counts' = [ i \in 1 .. 3 |-> AtLeastOne(RawCount(frame.rows, ratios[i])) ]
          /\ UNCHANGED spl_result
  /\ UNCHANGED << frame, ratios >>

\* one test of the first while loop, and its body
Shrink ==
  /\ spl_pc = "shrink"
  /\ IF Sum3(counts) > frame.rows
     THEN IF counts[LargestIndex(counts)] <= 1
          THEN spl_pc' = "grow" /\ UNCHANGED counts
          ELSE /\ counts' = [ counts EXCEPT ![LargestIndex(counts)] = @ - 1 ]
               /\ UNCHANGED spl_pc
     ELSE spl_pc' = "grow" /\ UNCHANGED counts
  /\ UNCHANGED << frame, ratios, spl_result >>

\* one test of the second while loop, and its body
Grow ==
  /\ spl_pc = "grow"
  /\ IF Sum3(counts) < frame.rows
     THEN counts' = GrowTrain(counts) /\ UNCHANGED spl_pc
     ELSE spl_pc' = "slice" /\ UNCHANGED counts
  /\ UNCHANGED << frame, ratios, spl_result >>

\* the last check and the three slices
Slice ==
  /\ spl_pc = "slice"
  /\ IF \/ \E i \in 1 .. 3 : counts[i] <= 0
        \/ Sum3(counts) # frame.rows
     THEN /\ spl_pc' = "raised"
          /\ spl_result' = [ err |-> "ValueError", why |-> "empty_split" ]
     ELSE /\ spl_pc' = "done"
          /\ spl_result' = [ err |-> "none",
                              train |-> Rows(1, counts[1]),
                              val |-> Rows(counts[1] + 1, counts[1] + counts[2]),
                              test |-> Rows(counts[1] + counts[2] + 1, frame.rows) ]
  /\ UNCHANGED << frame, ratios, counts >>

SplNext == SplitStart \/ Shrink \/ Grow \/ Slice

SplOthers == << envVars, supVars, runVars, ctlVars, cmpVars, mbVars >>

\* the function runs on its own: a step that can be taken is taken
FairSpecSplit ==
  /\ SplInit
  /\ [][SplNext /\ UNCHANGED SplOthers]_vars
  /\ WF_vars(SplNext /\ UNCHANGED SplOthers)

\* --------------------------- evaluate_policy with the all-zero policy
ZeroNext ==
  \/ \E episodes \in EpisodeCounts, seed_start \in SeedStarts, use_safety \in BOOLEAN :
        EvaluateFirst("zero", episodes, seed_start, use_safety)
  \/ RunEpisodeReset
  \/ \E sample \in RandomSamples(cfg) : LoopIteration(sample)
  \/ Summarise

SpecZero == EvalInit /\ [][ZeroNext /\ UNCHANGED << supVars, auxVars >>]_vars

\* =================================================================== claims
InSocRange == cfg.soc_min <= soc /\ soc <= cfg.soc_max

\* C1: after every reset (with or without a soc_init override) and every
\* step that returns, whatever the battery command, the state of charge lies
\* within [soc_min, soc_max] inclusive.
C1_SocWithinLimits ==
  (ret.op \in {"reset", "step"} /\ profiles # NoProfiles) => InSocRange

\* a step has driven the battery onto soc_min with the energy limit
\* engaged, and a reset has clamped an out-of-range start value
C1_Witness ==
  /\ ret.op = "step" /\ ret.err = "none"
  /\ ret.action[1] > 0
  /\ ret.info.battery_kw < Min(ret.action[1], cfg.max_discharge_kw)
  /\ ret.info.battery_kw > 0
  /\ soc = cfg.soc_min
  /\ cfg.soc_init > cfg.soc_max

\* C2: the sanitized battery term is not positive when soc <= soc_min +
\* 0.01, not negative when soc >= soc_max - 0.01, and zero when the
\* temperature is at least 48.0.
C2_GuardRails ==
  sup_decision.err = "none" =>
    /\ (sup_observation[5] <= cfg.soc_min + Pct(1) => sup_decision.action[1] <= 0)
    /\ (sup_observation[5] >= cfg.soc_max - Pct(1) => sup_decision.action[1] >= 0)
    /\ (sup_observation[6] >= DegC(ThermalLimitC) => sup_decision.action[1] = 0)

\* a discharge requested exactly at soc = soc_min + 0.01 was blocked
C2_Witness ==
  /\ sup_decision.err = "none"
  /\ sup_observation[5] = cfg.soc_min + Pct(1)
  /\ sup_observation[6] < DegC(ThermalLimitC)
  /\ sup_action[1] > 0
  /\ sup_decision.action[1] = 0

\* C3: in every step the realized battery power of a discharge request
\* (cmd_kw >= 0) satisfies 0 <= actual_kw <= min(cmd_kw, max_discharge_kw,
\* (soc - soc_min) * capacity * discharge_efficiency / dt), and that of a
\* charge request (cmd_kw < 0) satisfies 0 <= -actual_kw <= min(|cmd_kw|,
\* max_charge_kw, (soc_max - soc) * capacity / (dt * charge_efficiency)),
\* with soc taken before the step.
C3_RealizedPowerBounded ==
  (ret.op = "step" /\ ret.err = "none") =>
    LET cmd_kw == ret.action[1]
        actual_kw == ret.info.battery_kw
    IN IF cmd_kw >= 0
       THEN /\ 0 <= actual_kw
            /\ actual_kw <= cmd_kw
            /\ actual_kw <= cfg.max_discharge_kw
            /\ actual_kw <= (ret.soc_before - cfg.soc_min) * KDis
       ELSE /\ 0 <= -actual_kw
            /\ -actual_kw <= -cmd_kw
            /\ -actual_kw <= cfg.max_charge_kw
            /\ -actual_kw <= (cfg.soc_max - ret.soc_before) * KChg

\* a discharge request was cut to the energy-bounded limit, strictly below
\* both the command and max_discharge_kw
C3_Witness ==
  /\ ret.op = "step" /\ ret.err = "none"
  /\ ret.action[1] > 0
  /\ ret.info.battery_kw > 0
  /\ ret.info.battery_kw < ret.action[1]
  /\ ret.info.battery_kw < cfg.max_discharge_kw

\* C4: after a reset, step accepts a 1-element action [battery_kw] as well
\* as a 2-element action [battery_kw, grid_kw]: each advances the episode by
\* one step and returns without an error.
C4_BothActionFormsAccepted ==
  (ret.op = "step" /\ profiles # NoProfiles /\ Len(ret.action) \in {1, 2}) =>
    (ret.err = "none" /\ t = ret.t_before + 1)

Ended == pc \in {"returned", "raised"}

\* C5: evaluate_policy with the rule-based baseline policy, safety enabled
\* and episodes = N > 0 completes without an error and returns a summary
\* whose episodes field is N and whose details list holds N records.
C5_BaselineEvaluationCompletes ==
  (Ended /\ call.policy = "baseline" /\ call.use_safety /\ call.episodes > 0) =>
    /\ pc = "returned"
    /\ summary[1].episodes = call.episodes
    /\ Len(summary[1].details) = call.episodes

\* the decision the supervisor takes on a recorded policy action
DecisionOf(d) == SafetyApply(cfg, d.policy_action, d.observation)
OverriddenSteps == { i \in 1 .. Len(decisions) : DecisionOf(decisions[i]).overridden }

\* C6: with safety enabled, at every step of an episode the action handed
\* to the simulator's step is the sanitized action that
\* SafetySupervisor.apply returns for that step's policy action and
\* observation, and the safety_overrides of the returned metrics is the
\* number of steps whose decision was overridden.
C6_EveryStepSupervised ==
  (call.use_safety /\ pc # "idle") =>
    /\ \A i \in 1 .. Len(decisions) : decisions[i].handed = DecisionOf(decisions[i]).action
    /\ pc = "while" => Len(decisions) = acc.steps
    /\ (pc \in {"for", "returned"} /\ details # << >>) =>
         /\ Len(decisions) = details[Len(details)].steps
         /\ details[Len(details)].safety_overrides = Cardinality(OverriddenSteps)

\* an episode has returned in which the supervisor changed the action of
\* one step and left that of another alone
C6_Witness ==
  /\ call.use_safety
  /\ pc = "for"
  /\ details # << >>
  /\ \E i \in 1 .. Len(decisions) : decisions[i].handed # decisions[i].policy_action
  /\ \E i \in 1 .. Len(decisions) : decisions[i].handed = decisions[i].policy_action
  /\ details[Len(details)].safety_overrides \in 1 .. (Horizon - 1)

ResetCount == Cardinality({ i \in 1 .. Len(log) : log[i].ev = "reset" })

C7_Safety ==
  call.policy = "random" =>
    /\ pc = "while" =>
         /\ ResetCount = episode + 1
         /\ acc.steps = t
         /\ t < Horizon
         /\ ret.op = "step" => ~ret.terminated
    /\ \A i \in 1 .. Len(details) : details[i].steps = Horizon
    /\ (pc \in {"for", "returned"} /\ details # << >>) =>
         /\ ResetCount = episode
         /\ t = Horizon
         /\ ret.op = "step" /\ ret.terminated

\* C7: for a policy whose actions the supervisor and the simulator accept,
\* run_episode terminates: it resets the simulator once, performs exactly
\* horizon steps, stops at the first step that reports terminated, and
\* returns metrics with steps = horizon while the simulator's timestep is
\* horizon.
C7_EpisodeRunsToHorizon ==
  /\ []C7_Safety
  /\ (call.policy = "random" /\ pc = "while") ~> (pc = "for")

\* an episode of the random policy has returned
C7_Witness ==
  /\ call.policy = "random"
  /\ pc = "for"
  /\ Len(details) = 1
  /\ details[1].steps = Horizon
  /\ t = Horizon

\* C8: two invocations of evaluate_policy with the same configuration,
\* policy, seed_start and episode count return equal per-episode metrics.
C8_RepeatedEvaluationIdentical ==
  (invocation = 2 /\ pc = "returned") => details = prev[1]

ResetSeeds == SelectSeq(log, LAMBDA e : e.ev = "reset")

\* C9: within one evaluate_policy call with episodes = N the simulator is
\* reset exactly N times, the i-th reset uses seed seed_start + i, episode i
\* has been appended before episode i + 1 is reset, and details[i].episode
\* = i.
C9_SequentialSeededEpisodes ==
  (Ended /\ call.episodes > 0) =>
    /\ Len(ResetSeeds) = call.episodes
    /\ \A i \in 1 .. Len(ResetSeeds) : ResetSeeds[i].arg = call.seed_start + (i - 1)
    /\ \A k \in 2 .. Len(log) :
         log[k].ev = "reset" =>
           (log[k - 1].ev = "append" /\ log[k - 1].arg + 1 = log[k].arg - call.seed_start)
    /\ Len(details) = call.episodes
    /\ \A i \in 1 .. Len(details) : details[i].episode = i - 1

\* C10: evaluate_policy called with episodes <= 0 fails with a configuration
\* error before any episode runs: the simulator is not reset or stepped, the
\* policy is not called and no summary is produced.
C10_NonPositiveEpisodesRejected ==
  (pc # "idle" /\ call.episodes <= 0) =>
    /\ pc = "raised"
    /\ error = "ValueError"
    /\ log = << >>
    /\ decisions = << >>
    /\ details = << >>
    /\ summary = << >>

\* a call with episodes = 0 was rejected on a simulator that an earlier
\* evaluation had used
C10_Witness ==
  /\ pc = "raised"
  /\ call.episodes = 0
  /\ profiles # NoProfiles
  /\ log = << >>

\* C11: step called with an action whose size is neither 1 nor 2 raises
\* an error, the malformed-input ValueError once the simulator has been
\* reset, and leaves timestep, soc and temperature as they were.
C11_MalformedActionRejected ==
  [][(ret'.op = "step" /\ Len(ret'.action) \notin {1, 2}) =>
       /\ ret'.err # "none"
       /\ (profiles # NoProfiles => ret'.err = "ValueError")
       /\ t' = t
       /\ soc' = soc
       /\ temperature_c' = temperature_c]_vars

\* a 3-element action was rejected in the middle of an episode
C11_Witness ==
  /\ ret.op = "step" /\ ret.err = "ValueError"
  /\ Len(ret.action) = 3
  /\ t > 0 /\ t < Horizon

\* C12: when every step of an episode is given the all-zero action, the
\* realized battery power of every step is 0, soc stays at its reset value,
\* unmet_load_kwh is max(0, load - renewable) * dt and curtailed_kwh is
\* max(0, renewable - load) * dt for the profile values of that step, and
\* the battery throughput of the episode is 0.
C12_ZeroActionEpisode ==
  (call.policy = "zero" /\ pc \in {"while", "for", "returned"}) =>
    /\ ret.op = "step" =>
          /\ ret.err = "none"
          /\ ret.info.battery_kw = 0
          /\ ret.info.renewable_kw = ValueAt(Profiles(profiles).renewable_kw, ret.t_before)
          /\ ret.info.load_kw = ValueAt(Profiles(profiles).load_kw, ret.t_before)
          /\ ret.info.unmet_load_kwh = Max(0, ret.info.load_kw - ret.info.renewable_kw)
          /\ ret.info.curtailed_kwh = Max(0, ret.info.renewable_kw - ret.info.load_kw)
          /\ soc = ResetSoc(cfg, NoOptions)
          /\ ret.soc_before = ResetSoc(cfg, NoOptions)
    /\ acc.battery_throughput_kwh = 0
    /\ \A i \in 1 .. Len(details) :
          /\ details[i].battery_throughput_kwh = 0
          /\ details[i].steps = Horizon

\* a full all-zero episode has been returned, with a deficit step and a
\* surplus step in it, on a battery whose reset value was clipped
C12_Witness ==
  /\ call.policy = "zero" /\ pc = "returned"
  /\ Len(details) >= 1
  /\ details[1].unmet_load_kwh > 0
  /\ details[1].curtailed_kwh > 0
  /\ details[1].battery_throughput_kwh = 0
  /\ soc = cfg.soc_max /\ cfg.soc_init > cfg.soc_max

\* C13: for every observation of at least 8 elements,
\* RuleBasedController.act returns without an error an action of exactly
\* one element that lies in [-max_charge_kw, max_discharge_kw].
C13_ActShapeAndBounds ==
  (ctl_action.err # "pending" /\ Len(ctl_observation) >= 8) =>
    /\ ctl_action.err = "none"
    /\ Len(ctl_action.action) = 1
    /\ -cfg.max_charge_kw <= ctl_action.action[1]
    /\ ctl_action.action[1] <= cfg.max_discharge_kw

\* C14: whenever renewable_now > load_now and soc < soc_max - 0.01, act
\* returns the charging command -min(max_charge_kw, renewable_now -
\* load_now) whatever the price, a strictly negative value; the branch is
\* taken before the deficit and the low-price branches.
C14_SurplusCharges ==
  (/\ ctl_action.err # "pending"
   /\ Len(ctl_observation) >= 8
   /\ ctl_observation[1] > ctl_observation[3]
   /\ ctl_observation[5] < cfg.soc_max - Pct(1)) =>
    /\ ctl_action.err = "none"
    /\ ctl_action.action =
         << -Min(cfg.max_charge_kw, ctl_observation[1] - ctl_observation[3]) >>
    /\ ctl_action.action[1] < 0

\* a surplus smaller than max_charge_kw was absorbed in full at a price
\* and a soc that satisfy the low-price branch as well
C14_Witness ==
  /\ ctl_action.err = "none"
  /\ ctl_observation[1] > ctl_observation[3]
  /\ ctl_observation[1] - ctl_observation[3] < cfg.max_charge_kw
  /\ ctl_observation[7] <= LowPriceThreshold
  /\ ctl_observation[5] < Min(Pct(TargetSocPct), cfg.soc_max - Pct(1))
  /\ ctl_action.action[1] = ctl_observation[3] - ctl_observation[1]

\* the report of the comparison made, and the objective of its i-th metric
Report == cmp_report[1]
Objective(i) == specs[i][2]

\* C15: the report lists the 10 metrics, each with the values of the two
\* summaries and delta = candidate - baseline; the neutral metric
\* avg_export_kwh has improved and improvement_pct null; a higher-is-better
\* metric is improved iff candidate > baseline and a lower-is-better metric
\* iff candidate < baseline, so that equal values are never improved.
C15_Directionality ==
  cmp_report # << >> =>
    /\ Len(Report.metrics) = 10
    /\ \A i \in 1 .. Len(Report.metrics) :
         LET mc == Report.metrics[i]
             b == cmp_baseline[specs[i][1]]
             c == cmp_candidate[specs[i][1]]
         IN /\ mc.metric = specs[i][1]
            /\ mc.baseline = b /\ mc.candidate = c
            /\ mc.delta = Val(c.u - b.u, c.e - b.e)
            /\ (Objective(i) = "neutral") = (mc.metric = "avg_export_kwh")
            /\ Objective(i) = "neutral" =>
                  (mc.improved = "None" /\ mc.improvement_pct.null)
            /\ Objective(i) = "higher" =>
                  /\ mc.improved \in {"True", "False"}
                  /\ (mc.improved = "True") = Lt(b, c)
            /\ Objective(i) = "lower" =>
                  /\ mc.improved \in {"True", "False"}
                  /\ (mc.improved = "True") = Lt(c, b)
            /\ b = c => mc.improved # "True"

\* a report with a higher-is-better metric improved by less than 1e-12, a
\* lower-is-better metric with equal non-zero values, and a changed neutral
\* metric
C15_Witness ==
  /\ cmp_report # << >>
  /\ Report.metrics[1].improved = "True"
  /\ Report.metrics[1].delta = Val(0, 1)
  /\ Report.metrics[2].baseline = Val(-900, 0)
  /\ Report.metrics[2].delta = Zero
  /\ Report.metrics[2].improved = "False"
  /\ Report.metrics[8].delta # Zero
  /\ Report.metrics[8].improved = "None"

\* C16: for a metric that is not neutral, improvement_pct is null iff
\* |baseline| < 1e-12, improved being a boolean all the same; otherwise it
\* is 100 * (candidate - baseline) / |baseline| for higher-is-better and
\* 100 * (baseline - candidate) / |baseline| for lower-is-better, strictly
\* positive iff improved is true.  A baseline avg_reward of -120 and a
\* candidate of -90 give improved = true and improvement_pct = 25.
C16_ImprovementPct ==
  cmp_report # << >> =>
    /\ \A i \in 1 .. Len(Report.metrics) :
         Objective(i) # "neutral" =>
           LET mc == Report.metrics[i]
               b == mc.baseline
               c == mc.candidate
               pct == mc.improvement_pct
               gain == IF Objective(i) = "higher"
                       THEN Val(c.u - b.u, c.e - b.e)
                       ELSE Val(b.u - c.u, b.e - c.e)
           IN /\ mc.improved \in {"True", "False"}
              /\ pct.null = (b.u = 0 /\ -TinyBaseline < b.e /\ b.e < TinyBaseline)
              /\ ~pct.null =>
                    /\ Lt(Zero, pct.den)
                    /\ pct.den \in {b, Val(-b.u, -b.e)}
                    /\ pct.num = Val(100 * gain.u, 100 * gain.e)
                    /\ Lt(Zero, pct.num) = (mc.improved = "True")
    /\ (cmp_baseline.avg_reward = Val(-1200, 0) /\ cmp_candidate.avg_reward = Val(-900, 0)) =>
         /\ Report.metrics[1].improved = "True"
         /\ ~Report.metrics[1].improvement_pct.null
         /\ Report.metrics[1].improvement_pct.num
              = Scale(25, Report.metrics[1].improvement_pct.den)

\* the report holds the example (-120 against -90, +25 percent) and a
\* lower-is-better metric whose baseline of 7.5e-13 leaves the percentage
\* null while improved is false
C16_Witness ==
  /\ cmp_report # << >>
  /\ Report.metrics[1].baseline = Val(-1200, 0)
  /\ Report.metrics[1].candidate = Val(-900, 0)
  /\ Report.metrics[1].improvement_pct = PctOf(Val(30000, 0), Val(1200, 0))
  /\ Report.metrics[2].baseline = Val(0, 3)
  /\ Report.metrics[2].candidate = Val(50, 0)
  /\ Report.metrics[2].improved = "False"
  /\ Report.metrics[2].improvement_pct.null

\* C17: compared_metric_count is the number of metrics with a non-neutral
\* objective, 9 of the 10; improved_metric_count is the number of metrics
\* whose improved flag is true; 0 <= improved_metric_count <=
\* compared_metric_count.
C17_MetricCounts ==
  cmp_report # << >> =>
    /\ Report.compared_metric_count
         = Cardinality({ i \in 1 .. Len(specs) : Objective(i) # "neutral" })
    /\ Report.compared_metric_count = 9
    /\ Report.improved_metric_count
         = Cardinality({ i \in 1 .. Len(Report.metrics) : Report.metrics[i].improved = "True" })
    /\ 0 <= Report.improved_metric_count
    /\ Report.improved_metric_count <= Report.compared_metric_count

\* the report of the test's two summaries: all 9 compared metrics improved
C17_Witness ==
  /\ cmp_report # << >>
  /\ cmp_baseline = TestBaseline /\ cmp_candidate = TestCandidate
  /\ Report.improved_metric_count = 9
  /\ Report.compared_metric_count = 9

\* C18: the action returned by SafetySupervisor.apply has the length of
\* the input action; its battery term lies in [-max_charge_kw,
\* max_discharge_kw]; its grid term, when there is one, lies in
\* [-max_export_kw, max_import_kw] and is the original grid term clipped to
\* that range, whatever the guard rails do.
C18_SanitizedActionShape ==
  sup_decision.err = "none" =>
    /\ Len(sup_decision.action) = Len(sup_action)
    /\ -cfg.max_charge_kw <= sup_decision.action[1]
    /\ sup_decision.action[1] <= cfg.max_discharge_kw
    /\ Len(sup_action) = 2 =>
          /\ -cfg.max_export_kw <= sup_decision.action[2]
          /\ sup_decision.action[2] <= cfg.max_import_kw
          /\ sup_decision.action[2] =
               (IF sup_action[2] < -cfg.max_export_kw THEN -cfg.max_export_kw
                ELSE IF sup_action[2] > cfg.max_import_kw THEN cfg.max_import_kw
                ELSE sup_action[2])

\* a guard rail zeroed the battery term of a 2-element action whose grid
\* term was cut to the export limit
C18_Witness ==
  /\ sup_decision.err = "none"
  /\ Len(sup_action) = 2
  /\ sup_decision.reason # << "none" >>
  /\ sup_action[1] # 0 /\ sup_decision.action[1] = 0
  /\ sup_action[2] < -cfg.max_export_kw
  /\ sup_decision.action[2] = -cfg.max_export_kw

\* v is the integer nearest to tenths / 10, the even one on a tie
IsRounded(v, tenths) ==
  /\ 10 * v - tenths \in -5 .. 5
  /\ Abs(10 * v - tenths) = 5 => v % 2 = 0

\* C19: over every sequence of connect, dispatch and close calls, registers
\* are written only by a dispatch made while a connect has succeeded with
\* no close since; a dispatch made otherwise raises and writes nothing; a
\* permitted dispatch writes the rounded battery_kw to the battery register
\* and then the rounded grid_kw to the grid register; close when not
\* connected changes nothing.
C19_DispatchOnlyWhenConnected ==
  [][/\ writes' # writes => (mb_ret'.op = "dispatch" /\ connected)
     /\ (mb_ret'.op = "dispatch" /\ mb_calls' # mb_calls /\ ~connected) =>
           (mb_ret'.err = "RuntimeError" /\ writes' = writes)
     /\ (mb_ret'.op = "dispatch" /\ mb_calls' # mb_calls /\ connected) =>
           /\ mb_ret'.err = "none"
           /\ Len(writes') = Len(writes) + 2
           /\ SubSeq(writes', 1, Len(writes)) = writes
           /\ writes'[Len(writes) + 1].address = BatterySetpointRegister
           /\ IsRounded(writes'[Len(writes) + 1].value, mb_ret'.battery_kw)
           /\ writes'[Len(writes) + 2].address = GridSetpointRegister
           /\ IsRounded(writes'[Len(writes) + 2].value, mb_ret'.grid_kw)
     /\ (mb_ret'.op = "close" /\ mb_calls' # mb_calls /\ ~connected) =>
           (mb_ret'.err = "none" /\ client' = client /\ writes' = writes)]_vars

\* a dispatch after connect wrote -76 (from -75.5) and 100 (from 100.4),
\* and a dispatch made after the close that followed was refused
C19_Witness ==
  /\ mb_ret.op = "dispatch" /\ mb_ret.err = "RuntimeError"
  /\ ~connected
  /\ writes = << WriteRegister(BatterySetpointRegister, -76),
                 WriteRegister(GridSetpointRegister, 100) >>

\* the ratios are strictly positive and sum to 1
GoodRatios == (\A i \in 1 .. 3 : ratios[i] > 0) /\ ratios[1] + ratios[2] + ratios[3] = 100

\* three non-empty parts, consecutive row ranges in the original order
\* whose sizes sum to the number of rows
GoodSplit ==
  /\ spl_pc = "done"
  /\ spl_result.err = "none"
  /\ Len(spl_result.train) > 0 /\ Len(spl_result.val) > 0 /\ Len(spl_result.test) > 0
  /\ Len(spl_result.train) + Len(spl_result.val) + Len(spl_result.test) = frame.rows
  /\ spl_result.train \o spl_result.val \o spl_result.test = [ i \in 1 .. frame.rows |-> i ]

SplitEnded == spl_pc \in {"done", "raised"}

\* C20 as stated: every frame of n >= 3 rows with strictly positive ratios
\* summing to 1 is split into three non-empty consecutive row ranges (train,
\* val, test) whose sizes sum to n, 20 rows at 0.70/0.15/0.15 giving 14/3/3;
\* any ratio <= 0 is rejected with an error.
C20_EveryFrameSplit ==
  SplitEnded =>
    /\ (frame.rows >= 3 /\ GoodRatios) => GoodSplit
    /\ (frame.rows = 20 /\ ratios = << 70, 15, 15 >>) =>
          (GoodSplit /\ counts = << 14, 3, 3 >>)
    /\ (\E i \in 1 .. 3 : ratios[i] <= 0) => (spl_pc = "raised" /\ spl_result.err = "ValueError")

\* the timestamp column is absent, or parses and is non-decreasing
GoodTimestamps ==
  ~frame.has_timestamp
  \/ \A i \in 1 .. frame.rows :
        /\ frame.timestamp[i] # NaT
        /\ i < frame.rows => frame.timestamp[i] <= frame.timestamp[i + 1]

C20_Safety ==
  SplitEnded =>
    /\ (frame.rows >= 3 /\ GoodRatios /\ GoodTimestamps) => GoodSplit
    /\ (frame.rows >= 3 /\ GoodRatios /\ ~GoodTimestamps) =>
          (spl_pc = "raised" /\ spl_result.err = "ValueError")
    /\ (frame.rows = 20 /\ ratios = << 70, 15, 15 >> /\ GoodTimestamps) =>
          (GoodSplit /\ counts = << 14, 3, 3 >>)
    /\ (\E i \in 1 .. 3 : ratios[i] <= 0) => (spl_pc = "raised" /\ spl_result.err = "ValueError")

\* C20, amended: every call of split_profile_frame terminates; a frame of
\* n >= 3 rows whose timestamp column, if it has one, parses and is
\* non-decreasing is split, for strictly positive ratios summing to 1, into
\* three non-empty consecutive row ranges (train, val, test) whose sizes sum
\* to n, 20 rows at 0.70/0.15/0.15 giving 14/3/3; a frame whose timestamp
\* column holds an unparseable value or is not sorted is rejected with an
\* error, and so is any ratio <= 0.
C20_ValidFrameSplit ==
  /\ []C20_Safety
  /\ (spl_pc = "start") ~> SplitEnded

\* 3 rows at 0.05/0.05/0.90: the largest part was cut back to make room,
\* and each part holds one row
C20_Witness ==
  /\ spl_pc = "done"
  /\ frame.rows = 3 /\ frame.has_timestamp
  /\ ratios = << 5, 5, 90 >>
  /\ spl_result.train = << 1 >> /\ spl_result.val = << 2 >> /\ spl_result.test = << 3 >>

\* C21: under every sequence of reset and step calls the timestep stays in
\* 0 .. horizon, and a step taken in the terminal state (t = horizon) leaves
\* the timestep, the soc and the temperature as they were: only reset leaves
\* the terminal state.
C21_TerminalAbsorbing ==
  [][ /\ t' \in 0 .. Horizon
      /\ (t = Horizon /\ ret'.op = "step")
           => (t' = t /\ soc' = soc /\ temperature_c' = temperature_c) ]_vars

\* C22: a step taken at timestep t returns terminated = TRUE exactly when
\* t + 1 >= horizon and always returns truncated = FALSE; counted from the
\* reset that started the episode (t is the number of steps taken since),
\* terminated is FALSE on each of the first horizon - 1 steps and TRUE on
\* step number horizon.
C22_TerminatedAtHorizon ==
  (ret.op = "step" /\ ret.err = "none")
    => /\ ret.terminated = (ret.t_before + 1 >= Horizon)
       /\ ret.truncated = FALSE
       /\ t = ret.t_before + 1
       /\ (t < Horizon => ~ret.terminated)
       /\ (t = Horizon => ret.terminated)

\* the step that ends an episode: number horizon after the reset
C22_Witness ==
  /\ ret.op = "step"
  /\ ret.err = "none"
  /\ ret.t_before = Horizon - 1
  /\ t = Horizon
  /\ ret.terminated
  /\ ~ret.truncated

\* C23: apply returns overridden = TRUE exactly when some component of the
\* sanitized action differs from the original by more than the absolute
\* tolerance 1e-6 kW; in particular a hard clip that moves a term by more
\* than 1e-6 kW sets overridden.
C23_OverriddenIffChanged ==
  sup_decision.err = "none"
    => (sup_decision.overridden
          <=> \E i \in 1 .. Len(sup_action) :
                Abs(sup_action[i] - sup_decision.action[i]) > cfg.kw \div 1000000)

\* C24: when neither the surplus branch nor the deficit branch applies, the
\* price is at most low_price_threshold and soc < min(target_soc,
\* soc_max - 0.01), act returns the charging command
\* -min(max_charge_kw * low_price_charge_fraction, max_import_kw).
C24_LowPriceCharges ==
  (/\ ctl_action.err # "pending"
   /\ Len(ctl_observation) >= 8
   /\ ~(ctl_observation[1] > ctl_observation[3]
        /\ ctl_observation[5] < cfg.soc_max - Pct(1))
   /\ ~(ctl_observation[3] > ctl_observation[1])
   /\ ctl_observation[7] <= LowPriceThreshold
   /\ ctl_observation[5] < Min(Pct(TargetSocPct), cfg.soc_max - Pct(1))) =>
    /\ ctl_action.err = "none"
    /\ ctl_action.action =
         << -Min((cfg.max_charge_kw * LowPriceChargeFractionPct) \div 100,
                 cfg.max_import_kw) >>

\* the quantities of the last completed step that the costs are computed
\* from: the prices of its timestep and the energy the battery did not
\* deliver or absorb
StepPriceImport == ValueAt(Profiles(profiles).price_import_per_kwh, ret.t_before)
StepPriceExport == ValueAt(Profiles(profiles).price_export_per_kwh, ret.t_before)
StepClippedEnergy == Abs(ret.action[1] - ret.info.battery_kw)

\* C25: for every step, reward = -(cost_grid + cost_degradation +
\* cost_penalty) of that step's info, where cost_grid = max(0, grid_kw) *
\* price_import * dt - max(0, -grid_kw) * price_export * dt on the clamped
\* grid power, cost_degradation = |battery_kw| * dt *
\* degradation_cost_per_kwh on the realized battery power, and cost_penalty
\* = unmet_load_kwh * unmet_penalty + curtailed_kwh * curtail_penalty +
\* clipped_energy_kwh * unmet_penalty * 0.25.
C25_RewardIsNegatedCost ==
  (ret.op = "step" /\ ret.err = "none") =>
    LET info == ret.info
        \* reward + cost_grid + cost_degradation + cost_penalty, as thousands
        \* and rest
        sum_k == ret.reward.k + info.cost_grid.k + info.cost_degradation.k + info.cost_penalty.k
        sum_u == ret.reward.u + info.cost_grid.u + info.cost_degradation.u + info.cost_penalty.u
    IN /\ sum_u % 1000 = 0
       /\ sum_k + (sum_u \div 1000) = 0
       /\ info.grid_kw = Clip(ret.action[2], -cfg.max_export_kw, cfg.max_import_kw)
       /\ info.cost_grid
            = CostMinus(CostTimes(Max(0, info.grid_kw), StepPriceImport),
                        CostTimes(Max(0, -info.grid_kw), StepPriceExport))
       /\ info.cost_degradation = CostTimes(Abs(info.battery_kw), DegradationCostPerKwh)
       /\ info.cost_penalty
            = CostPlus(CostTimes(info.unmet_load_kwh, UnmetLoadPenaltyPerKwh),
                 CostPlus(CostTimes(info.curtailed_kwh, ExportCurtailPenaltyPerKwh),
                          CostTimes(StepClippedEnergy, (UnmetLoadPenaltyPerKwh * 25) \div 100)))
       /\ \A c \in { ret.reward, info.cost_grid, info.cost_degradation, info.cost_penalty } :
            c.u \in 0 .. 999

\* a step with an export, a battery command cut back by the limits and load
\* left unmet: the three costs are all non-zero and the reward is negative
C25_Witness ==
  /\ ret.op = "step"
  /\ ret.err = "none"
  /\ ret.info.grid_kw < 0
  /\ ret.info.battery_kw # 0
  /\ StepClippedEnergy > 0
  /\ ret.info.unmet_load_kwh > 0
  /\ ret.info.cost_grid.k < 0
  /\ ret.info.cost_degradation.k > 0
  /\ ret.info.cost_penalty.k > 0
  /\ ret.reward.k < 0

\* C26: every step leaves temperature = clamp(previous temperature + 0.01 *
\* |realized battery_kw| - 0.02, 15, 60), so the temperature is within
\* [15, 60] after any step, whatever the configured initial temperature.
C26_TemperatureUpdate ==
  [][ (ret'.op = "step" /\ ret'.err = "none") =>
        /\ temperature_c' = Clip(temperature_c + Abs(ret'.info.battery_kw) - 2 * PDen,
                                 DegC(TempMinC), DegC(TempMaxC))
        /\ ret'.info.temperature_c = temperature_c'
        /\ DegC(TempMinC) <= temperature_c'
        /\ temperature_c' <= DegC(TempMaxC) ]_vars

\* a simulator configured above 60 degrees has stepped and stands at 60
C26_Witness ==
  /\ ret.op = "step"
  /\ ret.err = "none"
  /\ cfg.temperature_c > DegC(TempMaxC)
  /\ temperature_c = DegC(TempMaxC)

\* C27: after reset, whatever preceded it, t = 0, soc = clamp(the soc_init
\* override if one was given, else the configured soc_init, soc_min,
\* soc_max) and the temperature is the configured one; with the profiles of
\* the given seed this is the state a freshly constructed simulator has
\* after the same reset, and the observation returned is the one of that
\* state, so nothing of an earlier episode carries over.
C27_ResetRestoresState ==
  ret.op = "reset" =>
    LET start_soc == IF ret.options.has_soc_init THEN ret.options.soc_init
                     ELSE cfg.soc_init
    IN /\ t = 0
       /\ soc = Clip(start_soc, cfg.soc_min, cfg.soc_max)
       /\ temperature_c = cfg.temperature_c
       /\ profiles = ret.seed
       /\ ret.obs = GetObs(Profiles(ret.seed), 0, soc, temperature_c)

\* a reset at the end of an episode that heated the battery, with an
\* override above soc_max
C27_Witness ==
  /\ ret.op = "reset"
  /\ ret.t_before = Horizon
  /\ ret.options.has_soc_init
  /\ ret.options.soc_init > cfg.soc_max
  /\ soc = cfg.soc_max
  /\ temperature_c = cfg.temperature_c

ReasonCodes ==
  { "none", "blocked_discharge_low_soc", "blocked_charge_high_soc",
    "blocked_battery_high_temp" }

\* C28: apply records at most one reason code per call: the reason is
\* exactly one of none, blocked_discharge_low_soc, blocked_charge_high_soc
\* and blocked_battery_high_temp, because a guard that fires sets the
\* battery term to zero, which disables the guards after it.
C28_SingleReason ==
  sup_decision.err = "none" =>
    /\ Len(sup_decision.reason) = 1
    /\ sup_decision.reason[1] \in ReasonCodes
    /\ (sup_decision.reason[1] # "none" => sup_decision.action[1] = 0)

\* a discharge asked for at low soc and at a temperature above the thermal
\* limit: the soc guard fired and the thermal guard did not
C28_Witness ==
  /\ sup_decision.err = "none"
  /\ sup_action[1] > 0
  /\ sup_observation[5] <= cfg.soc_min + Pct(1)
  /\ sup_observation[6] >= DegC(ThermalLimitC)
  /\ sup_decision.reason = << "blocked_discharge_low_soc" >>

StepTaken == acc.steps >= 1 /\ ret.op = "step" /\ ret.err = "none"

\* the temperature the policy and the supervisor saw before the last step
ObservedTemperature == decisions[Len(decisions)].observation[6]

\* C29: in an episode run by run_episode with safety enabled, from a
\* configured temperature below 48, the temperature after every step is at
\* most 48 + 0.01 * max(max_charge_kw, max_discharge_kw) - 0.02: whenever
\* the observed temperature is at least 48 the realized battery power of
\* the step is 0 and the temperature falls.
C29_TemperatureBounded ==
  (call.use_safety /\ cfg.temperature_c < DegC(ThermalLimitC) /\ StepTaken) =>
    /\ temperature_c <= DegC(ThermalLimitC)
                          + Max(cfg.max_charge_kw, cfg.max_discharge_kw) - 2 * PDen
    /\ ObservedTemperature >= DegC(ThermalLimitC) =>
         /\ ret.info.battery_kw = 0
         /\ temperature_c < ObservedTemperature

\* a supervised step at full power carried the temperature over 48 and the
\* next step was held at zero power
C29_Witness ==
  /\ call.use_safety
  /\ cfg.temperature_c < DegC(ThermalLimitC)
  /\ StepTaken
  /\ acc.steps >= 2
  /\ ObservedTemperature >= DegC(ThermalLimitC)
  /\ decisions[Len(decisions)].policy_action[1] # 0
  /\ ret.info.battery_kw = 0
  /\ temperature_c < ObservedTemperature

====
